---- MODULE Spec2Model ----
(***************************************************************************)
(* Model of the behavior-tree interpreter side panel of Groot              *)
(* (bt_editor/sidepanel_interpreter.cpp, bt_editor/interpreter_utils.cpp). *)
(*                                                                         *)
(* The execution tree (_tree) is a list of nodes in depth-first order;     *)
(* tree index i (i >= 1) is _tree.nodes[i-1] and index 0 is the root of    *)
(* the GUI graph.  The GUI tree (_abstract_tree) lists the nodes that are  *)
(* displayed: the descendants of a collapsed subtree node are not.         *)
(***************************************************************************)
EXTENDS Integers, Sequences, FiniteSets, TLC

\* Trees the editor loads are Shapes[1] .. Shapes[MaxShape].
MaxShape == 4
\* Largest number of GUI nodes the user selects before clicking a button.
MaxSel == 1
\* Largest number of handler runs in a behaviour.
MaxSteps == 5

\* The most ports of a port mapping.
MaxPorts == 3

\* The most handlers the user runs while the timer fires any number of times.
MaxChanges == 3

NodeStatus == {"IDLE", "RUNNING", "SUCCESS", "FAILURE"}

\* What the "success" member of a rosbridge result can be.
Results == {"true", "false", "absent", "nonbool"}

(***************************************************************************)
(* The loaded trees.  type[i] and parent[i] describe tree index i; parent  *)
(* 0 is the GUI root.  Control nodes are Sequence nodes; a subtree node    *)
(* has one child.  Subtree nodes are not nested.  A PARALLEL node is a     *)
(* Parallel node whose threshold is more than the number of its children.  *)
(***************************************************************************)
Shapes ==
    << [type   |-> <<"CONTROL", "SUBTREE", "CONTROL", "CONDITION", "SUBTREE", "ACTION">>,
        parent |-> <<0, 1, 2, 3, 1, 5>>],
       [type   |-> <<"CONTROL", "CONDITION">>,
        parent |-> <<0, 1>>],
       [type   |-> <<"CONTROL", "ACTION", "SUBTREE", "CONDITION">>,
        parent |-> <<0, 1, 1, 3>>],
       [type   |-> <<"CONTROL", "ACTION", "PARALLEL", "CONDITION">>,
        parent |-> <<0, 1, 1, 3>>],
       [type   |-> <<"CONTROL", "SUBTREE", "ACTION", "CONDITION">>,
        parent |-> <<0, 1, 2, 1>>] >>

NumNodes(sh) == IF sh = 0 THEN 0 ELSE Len(Shapes[sh].type)

Nodes(sh) == 1 .. NumNodes(sh)

TypeOf(sh, n) == IF n = 0 THEN "ROOT" ELSE Shapes[sh].type[n]

RECURSIVE Ancestors(_, _)
Ancestors(sh, n) ==
    LET q == Shapes[sh].parent[n]
    IN  IF q = 0 THEN {} ELSE {q} \cup Ancestors(sh, q)

RECURSIVE SortedSeq(_)
SortedSeq(S) ==
    IF S = {} THEN <<>>
    ELSE LET m == CHOOSE x \in S : \A y \in S : x <= y
         IN  <<m>> \o SortedSeq(S \ {m})

\* The children of the nodes 0 .. q of shape sh (0: the GUI root), in order.
RECURSIVE ChildrenUpTo(_, _)
ChildrenUpTo(sh, q) ==
    (q :> SortedSeq({n \in Nodes(sh) : Shapes[sh].parent[n] = q}))
    @@ (IF q = 0 THEN <<>> ELSE ChildrenUpTo(sh, q - 1))

RECURSIVE ChildrenTables(_)
ChildrenTables(sh) ==
    IF sh = 0 THEN <<>>
    ELSE (sh :> ChildrenUpTo(sh, NumNodes(sh))) @@ ChildrenTables(sh - 1)

\* The children of each node of each shape, computed once.
ChildrenTable == ChildrenTables(Len(Shapes))

Children(sh, q) == ChildrenTable[sh][q]

SubtreeNodes(sh) == {n \in Nodes(sh) : TypeOf(sh, n) = "SUBTREE"}

(***************************************************************************)
(* The editor (MainWindow, GraphicContainer), seen from the interpreter.   *)
(***************************************************************************)
\* The tree nodes displayed when the subtree nodes of exp are expanded.
Displayed(sh, exp) ==
    {n \in Nodes(sh) : \A a \in Ancestors(sh, n) : TypeOf(sh, a) = "SUBTREE" => a \in exp}

\* BuildTreeFromScene: the displayed nodes in depth-first order, GUI root first.
\* _abstract_tree.nodes().at(i) is BuildTreeFromScene(sh, exp)[i + 1].
RECURSIVE ScenesOf(_, _)
ScenesOf(sh, E) ==
    IF E = {} THEN <<>>
    ELSE (CHOOSE exp \in E : TRUE) :> (<<0>> \o SortedSeq(Displayed(sh, CHOOSE exp \in E : TRUE)))
         @@ ScenesOf(sh, E \ {CHOOSE exp \in E : TRUE})

RECURSIVE SceneTables(_)
SceneTables(sh) ==
    IF sh = 0 THEN <<>>
    ELSE (sh :> ScenesOf(sh, SUBSET SubtreeNodes(sh))) @@ SceneTables(sh - 1)

\* The GUI tree of each shape for each set of expanded subtree nodes, computed once.
SceneTable == SceneTables(Len(Shapes))

BuildTreeFromScene(sh, exp) == IF sh = 0 THEN <<0>> ELSE SceneTable[sh][exp]

\* MainWindow::onRequestSubTreeExpand toggles a subtree node.
onRequestSubTreeExpand(exp, node) ==
    IF node \in exp THEN exp \ {node} ELSE exp \cup {node}

\* GraphicContainer::getSubtreeNodesRecursively: the node and what is displayed below it.
getSubtreeNodesRecursively(sh, exp, node) ==
    {node} \cup {n \in Displayed(sh, exp) : node \in Ancestors(sh, n)}

(***************************************************************************)
(* translateNodeIndex.  node_status is a sequence of <<index, status>>.    *)
(***************************************************************************)
\* The lambda captures node_status by value: it reads the indices as they
\* were when translateNodeIndex was entered.
check_range(node_status, min, size) ==
    \E k \in 1 .. Len(node_status) :
        min < node_status[k][1] /\ min + size >= node_status[k][1]

\* update_range with the test of the first branch in both branches.
update_range_same_test(node_status, tree_index, min, size) ==
    [k \in 1 .. Len(node_status) |->
        LET it == node_status[k]
        IN  IF tree_index /\ min + size < it[1] THEN <<it[1] - size, it[2]>>
            ELSE IF ~tree_index /\ min + size < it[1] THEN <<it[1] + size, it[2]>>
            ELSE it]

\* The lambda captures node_status by reference and rewrites it.
update_range(node_status, tree_index, min, size) ==
    [k \in 1 .. Len(node_status) |->
        LET it == node_status[k]
        IN  IF tree_index /\ min + size < it[1] THEN <<it[1] - size, it[2]>>
            ELSE IF ~tree_index /\ min < it[1] THEN <<it[1] + size, it[2]>>
            ELSE it]

MaxIndex(node_status) ==
    CHOOSE m \in {node_status[k][1] : k \in 1 .. Len(node_status)} :
        \A k \in 1 .. Len(node_status) : node_status[k][1] <= m

\* The for loop of translateNodeIndex from index i on.  captured is
\* check_range's copy of node_status.  err: nodes().at(i) threw std::out_of_range.
RECURSIVE translateLoop(_, _, _, _, _, _, _, _)

\* The body of the if statement: node, at GUI index i, is a collapsed subtree
\* node, exp1 the scene after it was expanded.
translateSubtree(sh, tree_index, captured, i, last_change_index, offset, node_status, exp1, node, subtree_size) ==
    IF ~tree_index \/ ~check_range(captured, i, subtree_size)
    THEN translateLoop(sh, tree_index, captured, i + 1,
             IF tree_index THEN last_change_index - subtree_size ELSE last_change_index,
             IF tree_index THEN offset ELSE offset + subtree_size,
             update_range(node_status, tree_index, i + offset, subtree_size),
             onRequestSubTreeExpand(exp1, node))
    ELSE translateLoop(sh, tree_index, captured, i + 1, last_change_index, offset,
                       node_status, exp1)

\* The body of the for loop for node = _abstract_tree.nodes().at(i).
translateNode(sh, tree_index, captured, i, last_change_index, offset, node_status, exp, node) ==
    IF TypeOf(sh, node) = "SUBTREE" /\ node \notin exp
    THEN translateSubtree(sh, tree_index, captured, i, last_change_index, offset,
             node_status, onRequestSubTreeExpand(exp, node), node,
             Cardinality(getSubtreeNodesRecursively(
                 sh, onRequestSubTreeExpand(exp, node), node)) - 1)
    ELSE translateLoop(sh, tree_index, captured, i + 1, last_change_index, offset,
                       node_status, exp)

translateLoop(sh, tree_index, captured, i, last_change_index, offset, node_status, exp) ==
    IF i >= last_change_index
    THEN [node_status |-> node_status, exp |-> exp, err |-> FALSE]
    ELSE IF i >= Len(BuildTreeFromScene(sh, exp))
    THEN [node_status |-> node_status, exp |-> exp, err |-> TRUE]
    ELSE translateNode(sh, tree_index, captured, i, last_change_index, offset,
                       node_status, exp, BuildTreeFromScene(sh, exp)[i + 1])

translateNodeIndex(sh, node_status, tree_index, exp) ==
    IF Len(node_status) = 0
    THEN [node_status |-> node_status, exp |-> exp, err |-> FALSE]
    ELSE translateLoop(sh, tree_index, node_status, 0, MaxIndex(node_status), 0,
                       node_status, exp)

(***************************************************************************)
(* Ticking.  A tick state t is [st, ret, idx, trace, res]: the statuses,   *)
(* the condition nodes' return_status_, the Sequence nodes'                *)
(* current_child_idx_, the executeTick calls that ended (<<node, result>>) *)
(* and the result of the last one.  res = "THROW" is a ConditionEvaluation *)
(* in flight, res = "ERROR" a BT::LogicError.                              *)
(***************************************************************************)
Returned(t, n, r) == [t EXCEPT !.trace = Append(@, <<n, r>>), !.res = r]

\* InterpreterConditionNode::tick
InterpreterConditionNode_tick(t, n) == t.ret[n]

\* executeTick returning whatever tick() gave, IDLE included.
InterpreterConditionNode_executeTick_unchecked(t, n) ==
    Returned([t EXCEPT !.ret[n] = "IDLE", !.st[n] = InterpreterConditionNode_tick(t, n)],
             n, InterpreterConditionNode_tick(t, n))

\* executeTick keeping return_status_.
InterpreterConditionNode_executeTick_keep(t, n) ==
    IF InterpreterConditionNode_tick(t, n) = "IDLE"
    THEN Returned([t EXCEPT !.st[n] = "RUNNING"], n, "THROW")
    ELSE Returned([t EXCEPT !.st[n] = InterpreterConditionNode_tick(t, n)],
                  n, InterpreterConditionNode_tick(t, n))

\* InterpreterConditionNode::executeTick
InterpreterConditionNode_executeTick(t, n) ==
    LET status == InterpreterConditionNode_tick(t, n)
    IN  IF status = "IDLE"
        THEN Returned([t EXCEPT !.st[n] = "RUNNING"], n, "THROW")
        ELSE Returned([t EXCEPT !.ret[n] = "IDLE", !.st[n] = status], n, status)

\* InterpreterNode::tick
InterpreterNode_tick == "RUNNING"

\* InterpreterNode is a BT::AsyncActionNode: executeTick starts tick() when the
\* node is IDLE and returns the node's status.
InterpreterNode_executeTick(t, n) ==
    IF t.st[n] = "IDLE"
    THEN Returned([t EXCEPT !.st[n] = InterpreterNode_tick], n, InterpreterNode_tick)
    ELSE Returned(t, n, t.st[n])

RECURSIVE executeTick(_, _, _), SequenceNode_tick(_, _, _), haltChildren(_, _, _, _)

\* BT::ControlNode::haltChild: halt() of a running child (SequenceNode::halt,
\* DecoratorNode::halt), then setStatus(IDLE).
haltChild(sh, t, c) ==
    [(IF t.st[c] = "RUNNING" /\ TypeOf(sh, c) \in {"CONTROL", "SUBTREE"}
      THEN [haltChildren(sh, t, c, 1) EXCEPT
               !.idx[c] = IF TypeOf(sh, c) = "CONTROL" THEN 0 ELSE @]
      ELSE t)
     EXCEPT !.st[c] = "IDLE"]

\* BT::ControlNode::haltChildren for the children of q from position k on.
haltChildren(sh, t, q, k) ==
    IF k > Len(Children(sh, q)) THEN t
    ELSE haltChildren(sh, haltChild(sh, t, Children(sh, q)[k]), q, k + 1)

\* The switch of BT::SequenceNode::tick on the status t1.res of the child.
SequenceNode_child(sh, t1, n) ==
    CASE t1.res = "RUNNING" -> t1
      [] t1.res = "FAILURE" ->
            [haltChildren(sh, t1, n, 1) EXCEPT !.idx[n] = 0, !.res = "FAILURE"]
      [] t1.res = "SUCCESS" -> SequenceNode_tick(sh, [t1 EXCEPT !.idx[n] = @ + 1], n)
      [] t1.res = "IDLE" -> [t1 EXCEPT !.res = "ERROR"]
      [] OTHER -> t1

\* The while loop of BT::SequenceNode::tick and what follows it.
SequenceNode_tick(sh, t, n) ==
    IF t.idx[n] >= Len(Children(sh, n))
    THEN [haltChildren(sh, t, n, 1) EXCEPT !.idx[n] = 0, !.res = "SUCCESS"]
    ELSE SequenceNode_child(sh, executeTick(sh, t, Children(sh, n)[t.idx[n] + 1]), n)

\* BT::ParallelNode::tick with fewer children than the threshold: BT::LogicError,
\* before any child is ticked.
ParallelNode_tick(t, n) == [t EXCEPT !.res = "ERROR"]

\* BT::TreeNode::executeTick: setStatus(tick()), unless tick() threw.
TreeNode_executeTick(t1, n) ==
    IF t1.res \in NodeStatus
    THEN Returned([t1 EXCEPT !.st[n] = t1.res], n, t1.res)
    ELSE Returned(t1, n, t1.res)

\* executeTick of each node type; BT::SubtreeNode::tick.
executeTick(sh, t, n) ==
    CASE TypeOf(sh, n) = "CONDITION" -> InterpreterConditionNode_executeTick(t, n)
      [] TypeOf(sh, n) = "ACTION" -> InterpreterNode_executeTick(t, n)
      [] TypeOf(sh, n) = "PARALLEL" -> TreeNode_executeTick(ParallelNode_tick(t, n), n)
      [] TypeOf(sh, n) = "SUBTREE" ->
            TreeNode_executeTick(
                executeTick(sh, IF t.st[n] = "IDLE" THEN [t EXCEPT !.st[n] = "RUNNING"]
                                                    ELSE t,
                            Children(sh, n)[1]), n)
      [] OTHER ->
            TreeNode_executeTick(SequenceNode_tick(sh, [t EXCEPT !.st[n] = "RUNNING"], n), n)

\* BT::Tree::tickRoot: executeTick of the first node of _tree.nodes.
Tree_tickRoot(sh, st, ret, idx) ==
    executeTick(sh, [st |-> st, ret |-> ret, idx |-> idx, trace |-> <<>>, res |-> "IDLE"], 1)

(***************************************************************************)
(* The side panel.  A panel state p is [tree, st, ret, idx, exp, root,     *)
(* upd, auto, timer]: the loaded shape (0: _tree is empty), the nodes'     *)
(* status(), return_status_ and current_child_idx_, the expanded subtree   *)
(* nodes of the scene, _root_status, _updated, _autorun and whether        *)
(* _timer is active.  A handler gives x = [p, o]: the new state and what   *)
(* the call did (Out0 with some fields changed).                           *)
(***************************************************************************)
Out0 ==
    [ticks    |-> 0,        \* calls of _tree.tickRoot()
     threw    |-> FALSE,    \* a ConditionEvaluation was caught
     trace    |-> <<>>,     \* the executeTick calls of the tick
     prev     |-> <<>>,     \* tickRoot's prev_node_status, from index 1 on
     reported |-> <<>>,     \* the node_status tickRoot built
     trans    |-> <<>>,     \* the translateNodeIndex calls
     emitted  |-> <<>>,     \* the changeNodeStyle signals
     calls    |-> <<>>,     \* the rosbridge calls: <<node_id, kind, result>>
     caught   |-> FALSE,    \* a std::exception was caught by the handler
     excpt    |-> FALSE]    \* a std::exception left the call

Emit(node_status, reset_before_update) ==
    [node_status |-> node_status, reset_before_update |-> reset_before_update]

\* translateNodeIndex gave r: the scene is r.exp, the call is recorded in
\* o.trans, and o.excpt tells whether it threw.
Translated(p, o, node_status, tree_index, r) ==
    [p |-> [p EXCEPT !.exp = r.exp],
     o |-> [o EXCEPT !.trans = Append(@, [tree_index |-> tree_index, in |-> node_status,
                                          out |-> r.node_status, exp0 |-> p.exp,
                                          exp1 |-> r.exp, err |-> r.err]),
                     !.excpt = r.err],
     node_status |-> r.node_status]

Translate(p, o, node_status, tree_index) ==
    Translated(p, o, node_status, tree_index,
               translateNodeIndex(p.tree, node_status, tree_index, p.exp))

\* emit changeNodeStyle(_tree_name, node_status, reset_before_update) after x
SignalChangeNodeStyle(x, reset_before_update) ==
    IF x.o.excpt THEN [p |-> x.p, o |-> x.o]
    ELSE [p |-> x.p,
          o |-> [x.o EXCEPT !.emitted = Append(@, Emit(x.node_status, reset_before_update))]]

expandAndChangeNodeStyle(p, o, node_status, reset_before_update) ==
    IF Len(node_status) = 0 THEN [p |-> p, o |-> o]
    ELSE SignalChangeNodeStyle(Translate(p, o, node_status, TRUE), reset_before_update)

\* InterpreterNode::set_status
InterpreterNode_set_status(p, n, status) == [p EXCEPT !.st[n] = status]

\* InterpreterConditionNode::set_status
InterpreterConditionNode_set_status(p, n, status) ==
    [p EXCEPT !.ret[n] = status, !.st[n] = status]

\* changeTreeNodeStatus on _tree.nodes[n - 1]
changeTreeNodeStatus(p, n, status) ==
    IF TypeOf(p.tree, n) = "CONDITION"
    THEN InterpreterConditionNode_set_status(p, n, status)
    ELSE InterpreterNode_set_status(p, n, status)

\* for (auto it: node_status) changeTreeNodeStatus(_tree.nodes.at(it.first - 1), it.second)
\* from position k on; at() throws std::out_of_range.
RECURSIVE writeStatus(_, _, _, _)
writeStatus(p, o, node_status, k) ==
    IF k > Len(node_status) THEN [p |-> p, o |-> o]
    ELSE IF node_status[k][1] - 1 \notin 0 .. NumNodes(p.tree) - 1
    THEN [p |-> p, o |-> [o EXCEPT !.excpt = TRUE]]
    ELSE writeStatus(changeTreeNodeStatus(p, node_status[k][1], node_status[k][2]),
                     o, node_status, k + 1)

\* The loop above after the translateNodeIndex call that gave x.
WriteTranslated(x) ==
    IF x.o.excpt THEN [p |-> x.p, o |-> x.o]
    ELSE writeStatus(x.p, x.o, x.node_status, 1)

\* A handler that ends without setting _updated.
SetUpdated_skipped(x) == [p |-> x.p, o |-> x.o]

\* _updated = true at the end of the handler that gave x, unless it threw.
SetUpdated(x) ==
    IF x.o.excpt THEN x ELSE [p |-> [x.p EXCEPT !.upd = TRUE], o |-> x.o]

\* node_status of the elements of S (ascending), each with status.
WithStatus(S, status) ==
    LET q == SortedSeq(S) IN [k \in 1 .. Len(q) |-> <<q[k], status>>]

\* sel: the GUI indices of the selected nodes.
changeSelectedStyle(p, sel, status) ==
    IF NumNodes(p.tree) <= 1 THEN [p |-> p, o |-> Out0]
    ELSE SetUpdated(WriteTranslated(
             Translate(p, [Out0 EXCEPT !.emitted = <<Emit(WithStatus(sel, status), TRUE)>>],
                       WithStatus(sel, status), FALSE)))

RunningNodes(p) == {n \in Nodes(p.tree) : p.st[n] = "RUNNING"}

RECURSIVE setAll(_, _, _)
setAll(p, S, status) ==
    IF S = {} THEN p
    ELSE setAll(changeTreeNodeStatus(p, CHOOSE x \in S : TRUE, status),
                S \ {CHOOSE x \in S : TRUE}, status)

changeRunningStyle(p, status) ==
    IF NumNodes(p.tree) <= 1 THEN [p |-> p, o |-> Out0]
    ELSE SetUpdated(expandAndChangeNodeStyle(setAll(p, RunningNodes(p), status), Out0,
                                             WithStatus(RunningNodes(p), status), TRUE))

\* executeNode taking a "success" member of any type for a boolean.
ResultStatus_any_type(result) ==
    IF result \in {"true", "nonbool"} THEN "SUCCESS" ELSE "FAILURE"

\* executeConditionNode, executeActionNode: the status for a result whose
\* "success" member is result.
ResultStatus(result) == IF result = "true" THEN "SUCCESS" ELSE "FAILURE"

executeConditionNode(result) == ResultStatus(result)

executeActionNode(result) == ResultStatus(result)

\* executeNode(node_id) when _abstract_tree.node(node_id) has the given type.
executeNodeOfType(p, o, node_id, type, result) ==
    IF type \notin {"CONDITION", "ACTION"} THEN [p |-> p, o |-> o]
    ELSE LET status == IF type = "CONDITION" THEN executeConditionNode(result)
                                            ELSE executeActionNode(result)
             node_status == << <<node_id, status>> >>
         IN  WriteTranslated(
                 Translate(p,
                     [o EXCEPT !.calls = Append(@, <<node_id, IF type = "CONDITION"
                                                              THEN "service" ELSE "action",
                                                     result>>),
                               !.emitted = Append(@, Emit(node_status, TRUE))],
                     node_status, FALSE))

\* executeNode dispatching every node that is no condition as an action.
executeNode_dispatch_all(p, o, node_id, result) ==
    IF node_id \notin 0 .. Len(BuildTreeFromScene(p.tree, p.exp)) - 1
    THEN [p |-> p, o |-> [o EXCEPT !.excpt = TRUE]]
    ELSE executeNodeOfType(p, o, node_id,
             IF TypeOf(p.tree, BuildTreeFromScene(p.tree, p.exp)[node_id + 1]) = "CONDITION"
             THEN "CONDITION" ELSE "ACTION", result)

\* executeNode(node_id); _abstract_tree.node(node_id) throws std::out_of_range.
executeNode(p, o, node_id, result) ==
    IF node_id \notin 0 .. Len(BuildTreeFromScene(p.tree, p.exp)) - 1
    THEN [p |-> p, o |-> [o EXCEPT !.excpt = TRUE]]
    ELSE executeNodeOfType(p, o, node_id,
             TypeOf(p.tree, BuildTreeFromScene(p.tree, p.exp)[node_id + 1]), result)

\* executeNode for the indices ids[k], ids[k+1], ... after x.
RECURSIVE executeNodes(_, _, _, _)
executeNodes(x, ids, k, result) ==
    IF x.o.excpt \/ k > Len(ids) THEN [p |-> x.p, o |-> x.o]
    ELSE executeNodes(executeNode(x.p, x.o, ids[k], result), ids, k + 1, result)

on_buttonExecSelection_clicked(p, sel, result) ==
    IF NumNodes(p.tree) <= 1 THEN [p |-> p, o |-> Out0]
    ELSE SetUpdated(executeNodes([p |-> p, o |-> Out0], SortedSeq(sel), 1, result))

\* The for loop of on_buttonExecRunning_clicked after the translateNodeIndex
\* call that gave x.
ExecTranslated(x, result) ==
    executeNodes(x, [k \in 1 .. Len(x.node_status) |-> x.node_status[k][1]], 1, result)

on_buttonExecRunning_clicked(p, result) ==
    IF NumNodes(p.tree) <= 1 THEN [p |-> p, o |-> Out0]
    ELSE SetUpdated(ExecTranslated(
             Translate(p, Out0, WithStatus(RunningNodes(p), "RUNNING"), TRUE), result))

\* statusChange without the previous status of a node that became IDLE.
statusChange_new_only(type, i, prev_status, new_status, conditionRunning) ==
    IF new_status # prev_status
    THEN << <<i, new_status>> >>
    ELSE IF new_status = "RUNNING" /\ type # "CONDITION"
    THEN << <<i, new_status>> >> \o (IF conditionRunning THEN << <<i, "IDLE">> >> ELSE <<>>)
    ELSE <<>>

\* What the body of tickRoot's second loop pushes for the node at tree index i.
statusChange(type, i, prev_status, new_status, conditionRunning) ==
    IF new_status # prev_status
    THEN (IF new_status = "IDLE" THEN << <<i, prev_status>> >> ELSE <<>>)
         \o << <<i, new_status>> >>
    ELSE IF new_status = "RUNNING" /\ type # "CONDITION"
    THEN << <<i, new_status>> >> \o (IF conditionRunning THEN << <<i, "IDLE">> >> ELSE <<>>)
    ELSE <<>>

\* tickRoot's second loop from tree index i on.
RECURSIVE changedStatus(_, _, _, _, _)
changedStatus(sh, prev_node_status, st, conditionRunning, i) ==
    IF i > NumNodes(sh) THEN <<>>
    ELSE statusChange(TypeOf(sh, i), i, prev_node_status[i], st[i], conditionRunning)
         \o changedStatus(sh, prev_node_status, st, conditionRunning, i + 1)

\* tickRoot never stopping the evaluations.
stopEvaluations_never(p) == p

\* if (_root_status != NodeStatus::RUNNING) _updated = false
stopEvaluations(p) == IF p.root # "RUNNING" THEN [p EXCEPT !.upd = FALSE] ELSE p

\* tickRoot from "set changed status" on, with node_status as built.
tickRoot_report(p, o, node_status) ==
    expandAndChangeNodeStyle(p, [o EXCEPT !.reported = node_status], node_status, FALSE)

\* tickRoot after _tree.tickRoot() gave the tick state t.
tickRoot_ticked(p, t) ==
    LET prev_node_status ==
            [i \in 0 .. NumNodes(p.tree) |-> IF i = 0 THEN p.root ELSE p.st[i]]
        conditionRunning == t.res = "THROW"
        root == IF t.res \in NodeStatus THEN t.res ELSE p.root
        o == [Out0 EXCEPT !.ticks = 1, !.threw = conditionRunning, !.trace = t.trace,
                          !.prev = p.st]
    IN  IF t.res = "ERROR"
        THEN [p |-> [p EXCEPT !.st = t.st, !.ret = t.ret, !.idx = t.idx],
              o |-> [o EXCEPT !.excpt = TRUE]]
        ELSE tickRoot_report(
                 stopEvaluations([p EXCEPT !.st = t.st, !.ret = t.ret, !.idx = t.idx,
                                           !.root = root]),
                 o,
                 (IF root # prev_node_status[0] THEN << <<0, root>> >> ELSE <<>>)
                 \o changedStatus(p.tree, prev_node_status, t.st, conditionRunning, 1))

tickRoot(p) ==
    IF NumNodes(p.tree) <= 1 THEN [p |-> p, o |-> Out0]
    ELSE tickRoot_ticked(p, Tree_tickRoot(p.tree, p.st, p.ret, p.idx))

on_buttonDisableAutoExecution_clicked(p) == [p EXCEPT !.auto = FALSE, !.timer = FALSE]

on_buttonEnableAutoExecution_clicked(p) ==
    [p EXCEPT !.auto = TRUE, !.upd = TRUE, !.timer = TRUE]

\* runStep catching the exception and leaving auto execution as it is.
runStep_ticked_keep_auto(x) ==
    IF x.o.excpt
    THEN [p |-> x.p, o |-> [x.o EXCEPT !.excpt = FALSE, !.caught = TRUE]]
    ELSE [p |-> [x.p EXCEPT !.upd = FALSE], o |-> x.o]

\* The try block of runStep after tickRoot gave x.
runStep_ticked(x) ==
    IF x.o.excpt
    THEN [p |-> on_buttonDisableAutoExecution_clicked(x.p),
          o |-> [x.o EXCEPT !.excpt = FALSE, !.caught = TRUE]]
    ELSE [p |-> [x.p EXCEPT !.upd = FALSE], o |-> x.o]

\* runStep ticking whether or not a change is pending.
runStep_unconditional(p) ==
    IF p.auto THEN runStep_ticked(tickRoot(p)) ELSE [p |-> p, o |-> Out0]

runStep(p) ==
    IF p.upd /\ p.auto THEN runStep_ticked(tickRoot(p)) ELSE [p |-> p, o |-> Out0]

\* The try block of on_buttonRunTree_clicked after tickRoot gave x.
on_buttonRunTree_ticked(x) ==
    IF x.o.excpt THEN [p |-> x.p, o |-> [x.o EXCEPT !.excpt = FALSE, !.caught = TRUE]]
    ELSE [p |-> x.p, o |-> x.o]

on_buttonRunTree_clicked(p) == on_buttonRunTree_ticked(tickRoot(p))

\* setTree with shape sh in the editor, its subtree nodes exp expanded: _tree is
\* built anew.
setTree(p, sh, exp) ==
    [p EXCEPT !.tree = sh,
              !.exp = exp,
              !.st = [n \in Nodes(sh) |-> "IDLE"],
              !.ret = [n \in Nodes(sh) |-> "IDLE"],
              !.idx = [n \in Nodes(sh) |-> 0],
              !.upd = TRUE,
              !.timer = IF p.auto THEN TRUE ELSE @]

on_buttonResetTree_clicked(p, sh, exp) == [setTree(p, sh, exp) EXCEPT !.upd = TRUE]

(***************************************************************************)
(* The request of a call.  A string is the sequence of its characters; a   *)
(* port is [direction, default_value, mapping_value], its name its place   *)
(* in the port mapping; a member of the request is [name, value, refval].  *)
(***************************************************************************)
PortDirection == {"INPUT", "OUTPUT", "INOUT"}

\* The strings a port mapping holds for a port: nothing, a literal, and the two
\* ways to name a blackboard entry.
MappingValues == {<<>>, <<"1">>, <<"$", "k">>, <<"{", "k", "}">>}

\* The port mappings of a node: each port with a literal default value.
PortMappings ==
    UNION {[1 .. n -> [direction : PortDirection, default_value : {<<"0">>},
                       mapping_value : MappingValues]] : n \in 0 .. MaxPorts}

\* value.substr(1, value.size())
substr1(value) == SubSeq(value, 2, Len(value))

\* if (value.front() == '{' && value.back() == '}') of getPortValue
stripBraces(value, refval) ==
    IF value # <<>> /\ Head(value) = "{" /\ value[Len(value)] = "}"
    THEN <<SubSeq(value, 2, Len(value) - 1), TRUE>>
    ELSE <<value, refval>>

\* if (value.front() == '$') of getPortValue, and what follows it
stripDollar(value) ==
    IF value # <<>> /\ Head(value) = "$" THEN stripBraces(substr1(value), TRUE)
    ELSE stripBraces(value, FALSE)

\* getPortValue(port_model, mapping_value): <<value, refval>>
getPortValue(port_model, mapping_value) ==
    stripDollar(IF mapping_value # <<>> THEN mapping_value ELSE port_model.default_value)

\* goal.AddMember(jname, jval, ...) with the value of value_pair
AddMember(goal, name, value_pair) ==
    Append(goal, [name |-> name, value |-> value_pair[1], refval |-> value_pair[2]])

\* The for loop of SidepanelInterpreter::getRequestFromPorts from port i on.
RECURSIVE requestLoop(_, _, _)
requestLoop(port_mapping, i, goal) ==
    IF i > Len(port_mapping) THEN goal
    ELSE IF port_mapping[i].direction = "OUTPUT" THEN requestLoop(port_mapping, i + 1, goal)
    ELSE IF getPortValue(port_mapping[i], port_mapping[i].mapping_value)[2]
    THEN AddMember(goal, i, getPortValue(port_mapping[i], port_mapping[i].mapping_value))
    ELSE requestLoop(port_mapping, i + 1,
             AddMember(goal, i, getPortValue(port_mapping[i], port_mapping[i].mapping_value)))

getRequestFromPorts(port_mapping) == requestLoop(port_mapping, 1, <<>>)

(***************************************************************************)
(* The state machine.                                                      *)
(***************************************************************************)
VARIABLES
    _tree,                  \* the loaded shape; 0 when _tree.nodes is empty
    status,                 \* status[n]: _tree.nodes[n-1]->status()
    return_status_,         \* InterpreterConditionNode::return_status_
    current_child_idx_,     \* SequenceNode::current_child_idx_
    expanded,               \* the subtree nodes whose SubtreeNodeModel is expanded
    _root_status, _updated, _autorun,
    timer,                  \* _timer->isActive()
    crashed,                \* an exception left a slot
    ev,                     \* the last handler: its name and what it did
    steps,                  \* the handlers run so far
    port_mapping,           \* the port mapping getRequestFromPorts is given
    request,                \* whether it was called, and the goal it built
    timeouts                \* the timeouts of _timer counted apart, modulo 2

vars == <<_tree, status, return_status_, current_child_idx_, expanded,
          _root_status, _updated, _autorun, timer, crashed, ev, steps,
          port_mapping, request, timeouts>>

PanelVars ==
    <<_tree, status, return_status_, current_child_idx_, expanded, _root_status,
      _updated, _autorun, timer>>

Panel ==
    [tree |-> _tree, st |-> status, ret |-> return_status_, idx |-> current_child_idx_,
     exp |-> expanded, root |-> _root_status, upd |-> _updated, auto |-> _autorun,
     timer |-> timer]

Event(op, o) == [op |-> op, o |-> o]

\* The handler op runs and gives x = [p, o].
Runs(op, x) ==
    /\ ~crashed
    /\ _tree' = x.p.tree
    /\ status' = x.p.st
    /\ return_status_' = x.p.ret
    /\ current_child_idx_' = x.p.idx
    /\ expanded' = x.p.exp
    /\ _root_status' = x.p.root
    /\ _updated' = x.p.upd
    /\ _autorun' = x.p.auto
    /\ timer' = x.p.timer
    /\ crashed' = x.o.excpt
    /\ ev' = Event(op, x.o)
    /\ UNCHANGED <<port_mapping, request>>

\* The handler op is one of at most MaxSteps handlers.
Becomes(op, x) ==
    /\ steps < MaxSteps
    /\ Runs(op, x)
    /\ steps' = steps + 1
    /\ UNCHANGED timeouts

\* The state after the constructor, before any call.
Constructed ==
    /\ _tree = 0
    /\ status = <<>>
    /\ return_status_ = <<>>
    /\ current_child_idx_ = <<>>
    /\ expanded = {}
    /\ _root_status = "IDLE"
    /\ _updated = TRUE
    /\ _autorun = TRUE
    /\ timer = FALSE
    /\ crashed = FALSE
    /\ ev = Event("constructor", Out0)
    /\ steps = 0
    /\ request = [built |-> FALSE, goal |-> <<>>]
    /\ timeouts = 0

Init == Constructed /\ port_mapping = <<>>

\* What setTree can find in the editor: the loaded tree as it is displayed, or,
\* when none is loaded, any shape with any of its subtree nodes expanded.
EditorScenes ==
    IF _tree = 0
    THEN UNION {{<<sh, exp>> : exp \in SUBSET SubtreeNodes(sh)} : sh \in 1 .. MaxShape}
    ELSE {<<_tree, expanded>>}

\* The selections of the user: at most MaxSel displayed nodes, by GUI index.
Selections ==
    {S \in SUBSET (0 .. Len(BuildTreeFromScene(_tree, expanded)) - 1) :
        Cardinality(S) <= MaxSel}

SetTree ==
    \E y \in EditorScenes :
        Becomes("setTree", [p |-> setTree(Panel, y[1], y[2]), o |-> Out0])

ResetTree ==
    \E y \in EditorScenes :
        Becomes("on_buttonResetTree_clicked",
                [p |-> on_buttonResetTree_clicked(Panel, y[1], y[2]), o |-> Out0])

\* onRequestSubTreeExpand for each node of S.
RECURSIVE toggleSubtrees(_, _)
toggleSubtrees(exp, S) ==
    IF S = {} THEN exp
    ELSE toggleSubtrees(onRequestSubTreeExpand(exp, CHOOSE x \in S : TRUE),
                        S \ {CHOOSE x \in S : TRUE})

\* The user expands or collapses some of the displayed subtree nodes.
SubTreeExpand ==
    \E S \in (SUBSET (SubtreeNodes(_tree) \cap Displayed(_tree, expanded))) \ {{}} :
        Becomes("onRequestSubTreeExpand",
                [p |-> [Panel EXCEPT !.exp = toggleSubtrees(expanded, S)], o |-> Out0])

\* on_buttonSetSuccess_clicked, on_buttonSetFailure_clicked, on_buttonSetIdle_clicked
SetSelected ==
    \E sel \in Selections, s \in {"SUCCESS", "FAILURE", "IDLE"} :
        Becomes("changeSelectedStyle", changeSelectedStyle(Panel, sel, s))

\* on_buttonSetRunningSuccess_clicked, on_buttonSetRunningFailure_clicked
SetRunning ==
    \E s \in {"SUCCESS", "FAILURE"} :
        Becomes("changeRunningStyle", changeRunningStyle(Panel, s))

ExecSelection ==
    \E sel \in Selections, result \in Results :
        Becomes("on_buttonExecSelection_clicked",
                on_buttonExecSelection_clicked(Panel, sel, result))

ExecRunning ==
    \E result \in Results :
        Becomes("on_buttonExecRunning_clicked",
                on_buttonExecRunning_clicked(Panel, result))

\* The timer fires.
RunStep == timer /\ Becomes("runStep", runStep(Panel))

\* The Run Tree button is enabled while auto execution is disabled.
RunTree == ~_autorun /\ Becomes("on_buttonRunTree_clicked", on_buttonRunTree_clicked(Panel))

EnableAutoExecution ==
    /\ ~_autorun
    /\ Becomes("on_buttonEnableAutoExecution_clicked",
               [p |-> on_buttonEnableAutoExecution_clicked(Panel), o |-> Out0])

DisableAutoExecution ==
    /\ _autorun
    /\ Becomes("on_buttonDisableAutoExecution_clicked",
               [p |-> on_buttonDisableAutoExecution_clicked(Panel), o |-> Out0])

Next ==
    \/ SetTree
    \/ ResetTree
    \/ SubTreeExpand
    \/ SetSelected
    \/ SetRunning
    \/ ExecSelection
    \/ ExecRunning
    \/ RunStep
    \/ RunTree
    \/ EnableAutoExecution
    \/ DisableAutoExecution

Spec == Init /\ [][Next]_vars

(***************************************************************************)
(* The panel with a timer that keeps firing: the QTimer started with       *)
(* _timer->start(20) times out again and again while it is active, between *)
(* the at most MaxChanges handlers the user runs.                          *)
(***************************************************************************)
\* _timer times out: what is seen of it before the slot runs.
QTimer_timeout == timer /\ ~crashed /\ timeouts' = (timeouts + 1) % 2

\* The timer fires, however many handlers ran before, and runStep runs.
Timeout == QTimer_timeout /\ Runs("runStep", runStep(Panel)) /\ UNCHANGED steps

\* The user has run fewer than MaxChanges handlers.
Few == steps < MaxChanges

NextTimer ==
    \/ Few /\ SetTree
    \/ Few /\ ResetTree
    \/ Few /\ SubTreeExpand
    \/ Few /\ SetSelected
    \/ Few /\ SetRunning
    \/ Few /\ ExecSelection
    \/ Few /\ ExecRunning
    \/ Few /\ RunTree
    \/ Few /\ EnableAutoExecution
    \/ Few /\ DisableAutoExecution
    \/ Timeout

\* An active timer times out again; the steps of NextTimer that are
\* QTimer_timeout steps are the Timeout steps.
SpecTimer == Init /\ [][NextTimer]_vars /\ WF_timeouts(QTimer_timeout)

(***************************************************************************)
(* getRequestFromPorts alone, for each port mapping.                       *)
(***************************************************************************)
InitRequest == Constructed /\ port_mapping \in PortMappings

GetRequestFromPorts ==
    /\ ~request.built
    /\ request' = [built |-> TRUE, goal |-> getRequestFromPorts(port_mapping)]
    /\ UNCHANGED <<PanelVars, crashed, ev, steps, port_mapping, timeouts>>

NextRequest == GetRequestFromPorts

SpecRequest == InitRequest /\ [][NextRequest]_vars

(***************************************************************************)
(* The properties.  They read the last handler's record ev; the action     *)
(* properties compare the state a handler found with the state it left.    *)
(***************************************************************************)
\* The GUI tree of the loaded tree when the subtree nodes of exp are expanded.
Scene(exp) == BuildTreeFromScene(_tree, exp)

\* The collapsed subtree nodes of exp with a node of node_status below them.
Holding(exp, node_status) ==
    {s \in SubtreeNodes(_tree) \ exp :
        \E k \in 1 .. Len(node_status) :
            node_status[k][1] # 0 /\ s \in Ancestors(_tree, node_status[k][1])}

\* The nodes hidden below the collapsed subtree nodes displayed before GUI index g.
HiddenBefore(exp, g) ==
    {n \in Nodes(_tree) :
        \E i \in 1 .. g - 1 :
            /\ Scene(exp)[i + 1] \in SubtreeNodes(_tree) \ exp
            /\ Scene(exp)[i + 1] \in Ancestors(_tree, n)}

Leaf(n) == TypeOf(_tree, n) \in {"CONDITION", "ACTION"}

\* The tree indices the executeNode calls of the last handler wrote a result to.
Written ==
    {ev.o.trans[k].out[1][1] :
        k \in {i \in 1 .. Len(ev.o.trans) : ~ev.o.trans[i].tree_index}}

\* The handler recorded in e ticked the tree and the tick reached node n.
Ticked(e, n) == e.o.ticks = 1 /\ \E k \in 1 .. Len(e.o.trace) : e.o.trace[k][1] = n

\* The statuses tickRoot reported for index i, in order.
ReportedFor(e, i) ==
    [k \in 1 .. Len(SelectSeq(e.o.reported, LAMBDA x : x[1] = i)) |->
        SelectSeq(e.o.reported, LAMBDA x : x[1] = i)[k][2]]

\* C1: every translateNodeIndex(node_status, true) call succeeds, leaves expanded
\* exactly the subtree nodes that were expanded or hold a reported node, and turns
\* each tree index into the index of the same node in the GUI tree displayed after
\* the call.
C1_TranslateToGui ==
    \A k \in 1 .. Len(ev.o.trans) :
        ev.o.trans[k].tree_index =>
            /\ ~ev.o.trans[k].err
            /\ ev.o.trans[k].exp1 =
                   ev.o.trans[k].exp0 \cup Holding(ev.o.trans[k].exp0, ev.o.trans[k].in)
            /\ Len(ev.o.trans[k].out) = Len(ev.o.trans[k].in)
            /\ \A j \in 1 .. Len(ev.o.trans[k].in) :
                   /\ ev.o.trans[k].out[j][2] = ev.o.trans[k].in[j][2]
                   /\ ev.o.trans[k].out[j][1] \in 0 .. Len(Scene(ev.o.trans[k].exp1)) - 1
                   /\ Scene(ev.o.trans[k].exp1)[ev.o.trans[k].out[j][1] + 1] =
                          ev.o.trans[k].in[j][1]

C3_RoundTrip ==
    (ev.op = "on_buttonExecRunning_clicked" /\ Len(ev.o.trans) > 0) =>
        /\ ~ev.o.excpt
        /\ \A j \in 1 .. Len(ev.o.trans[1].in) :
               Leaf(ev.o.trans[1].in[j][1]) =>
                   /\ \E k \in 2 .. Len(ev.o.trans) :
                          /\ ev.o.trans[k].in[1][1] = ev.o.trans[1].out[j][1]
                          /\ ev.o.trans[k].out[1][1] = ev.o.trans[1].in[j][1]
                   /\ status[ev.o.trans[1].in[j][1]] \in {"SUCCESS", "FAILURE"}
        /\ Written =
               {ev.o.trans[1].in[j][1] :
                   j \in {i \in 1 .. Len(ev.o.trans[1].in) : Leaf(ev.o.trans[1].in[i][1])}}

\* C4: a timer step ticks the loaded tree when _updated and _autorun are both true
\* and otherwise ticks nothing and changes nothing; a click on Run Tree ticks the
\* loaded tree once whatever _updated is.
C4_TickOnTimerOrDemand ==
    [][/\ ev'.op = "runStep" =>
              IF _updated /\ _autorun
              THEN NumNodes(_tree) > 1 => ev'.o.ticks = 1
              ELSE ev'.o.ticks = 0 /\ UNCHANGED PanelVars
       /\ ev'.op = "on_buttonRunTree_clicked" =>
              (NumNodes(_tree) > 1 => ev'.o.ticks = 1)]_vars

\* Run Tree ticked the tree while no change was pending: the root is RUNNING, so
\* the tick did not clear _updated.
C4_Witness ==
    /\ ev.op = "on_buttonRunTree_clicked"
    /\ ev.o.ticks = 1
    /\ _root_status = "RUNNING"
    /\ ~_updated

\* C5: executeNode on a GUI node that is neither a condition nor an action node
\* makes no call, emits nothing and changes nothing; the calls the execute buttons
\* made are service calls for condition nodes and action goals for action nodes,
\* each with one style change and one status written.
C5_Dispatch ==
    /\ \A node_id \in 0 .. Len(Scene(expanded)) - 1 :
           (NumNodes(_tree) > 1 /\ ~Leaf(Scene(expanded)[node_id + 1])) =>
               \A result \in Results :
                   executeNode(Panel, Out0, node_id, result) = [p |-> Panel, o |-> Out0]
    /\ ev.op \in {"on_buttonExecSelection_clicked", "on_buttonExecRunning_clicked"} =>
           /\ \A k \in 1 .. Len(ev.o.calls) :
                  /\ ev.o.calls[k][1] \in 0 .. Len(Scene(expanded)) - 1
                  /\ Leaf(Scene(expanded)[ev.o.calls[k][1] + 1])
                  /\ ev.o.calls[k][2] =
                         IF TypeOf(_tree, Scene(expanded)[ev.o.calls[k][1] + 1]) = "CONDITION"
                         THEN "service" ELSE "action"
           /\ Len(ev.o.emitted) = Len(ev.o.calls)
           /\ Cardinality({k \in 1 .. Len(ev.o.trans) : ~ev.o.trans[k].tree_index})
                  = Len(ev.o.calls)

\* Execute Running ran executeNode on running nodes that are all control or subtree
\* nodes: no call, no style change, and they are still RUNNING.
C5_Witness ==
    /\ ev.op = "on_buttonExecRunning_clicked"
    /\ Len(ev.o.trans) = 1
    /\ Len(ev.o.trans[1].out) > 0
    /\ ~ev.o.excpt
    /\ ev.o.calls = <<>>
    /\ ev.o.emitted = <<>>
    /\ \A j \in 1 .. Len(ev.o.trans[1].in) : status[ev.o.trans[1].in[j][1]] = "RUNNING"

\* C6: when a tick reaches a condition node whose return_status_ is IDLE, the
\* node's executeTick returns no status: it throws ConditionEvaluation, the node is
\* RUNNING afterwards, tickRoot catches the exception and _root_status keeps the
\* value it had before the tick.
C6_ConditionEvaluation ==
    [][ev'.o.ticks = 1 =>
          \A k \in 1 .. Len(ev'.o.trace) :
              (/\ TypeOf(_tree, ev'.o.trace[k][1]) = "CONDITION"
               /\ return_status_[ev'.o.trace[k][1]] = "IDLE") =>
                  /\ ev'.o.trace[k][2] = "THROW"
                  /\ status'[ev'.o.trace[k][1]] = "RUNNING"
                  /\ ev'.o.threw
                  /\ _root_status' = _root_status]_vars

\* A tick ended at a condition node that threw ConditionEvaluation.
C6_Witness ==
    /\ ev.o.ticks = 1
    /\ ev.o.threw
    /\ \E k \in 1 .. Len(ev.o.trace) :
           /\ TypeOf(_tree, ev.o.trace[k][1]) = "CONDITION"
           /\ ev.o.trace[k][2] = "THROW"
           /\ status[ev.o.trace[k][1]] = "RUNNING"

\* C7: for every condition node, the status the user sets becomes its pending
\* answer; a tick that reaches the node with a pending SUCCESS or FAILURE returns
\* that answer and leaves IDLE pending; a tick that reaches it with IDLE pending
\* throws ConditionEvaluation; and a step that neither reaches the node nor sets a
\* status nor loads a tree leaves the pending answer as it is.
C7_AnswerConsumedOnce ==
    [][\A n \in Nodes(_tree) : TypeOf(_tree, n) = "CONDITION" =>
          /\ (ev'.op = "changeSelectedStyle" /\ ~ev'.o.excpt) =>
                 \A k \in 1 .. Len(ev'.o.trans) : \A j \in 1 .. Len(ev'.o.trans[k].out) :
                     ev'.o.trans[k].out[j][1] = n =>
                         return_status_'[n] = ev'.o.trans[k].out[j][2]
          /\ (Ticked(ev', n) /\ return_status_[n] \in {"SUCCESS", "FAILURE"}) =>
                 /\ \E k \in 1 .. Len(ev'.o.trace) : ev'.o.trace[k] = <<n, return_status_[n]>>
                 /\ return_status_'[n] = "IDLE"
          /\ (Ticked(ev', n) /\ return_status_[n] = "IDLE") =>
                 /\ \E k \in 1 .. Len(ev'.o.trace) : ev'.o.trace[k] = <<n, "THROW">>
                 /\ return_status_'[n] = "IDLE"
          /\ (/\ ~Ticked(ev', n)
              /\ ev'.op \in {"runStep", "on_buttonRunTree_clicked", "onRequestSubTreeExpand",
                             "on_buttonEnableAutoExecution_clicked",
                             "on_buttonDisableAutoExecution_clicked"}) =>
                 return_status_'[n] = return_status_[n]]_vars

\* A tick returned the answer of a condition node and left IDLE pending.
C7_Witness ==
    /\ ev.o.ticks = 1
    /\ \E k \in 1 .. Len(ev.o.trace) :
           /\ TypeOf(_tree, ev.o.trace[k][1]) = "CONDITION"
           /\ ev.o.trace[k][2] \in {"SUCCESS", "FAILURE"}
           /\ return_status_[ev.o.trace[k][1]] = "IDLE"

\* C8: a tick that leaves _root_status other than RUNNING leaves _updated false;
\* while _updated is false a timer step does not tick; and _updated becomes true
\* again only by setting a selected or running status, executing the selection or
\* the running nodes, resetting or loading the tree, or enabling auto execution.
C8_StopUntilNextChange ==
    [][/\ (ev'.o.ticks = 1 /\ ~ev'.o.caught /\ ~ev'.o.excpt /\ _root_status' # "RUNNING")
              => ~_updated'
       /\ (ev'.op = "runStep" /\ ~_updated) => ev'.o.ticks = 0
       /\ (~_updated /\ _updated') =>
              ev'.op \in {"changeSelectedStyle", "changeRunningStyle",
                          "on_buttonExecSelection_clicked", "on_buttonExecRunning_clicked",
                          "on_buttonResetTree_clicked", "setTree",
                          "on_buttonEnableAutoExecution_clicked"}]_vars

\* A timer step found auto execution on, no change pending and the root not
\* RUNNING, and did not tick.
C8_Witness ==
    /\ ev.op = "runStep"
    /\ ev.o.ticks = 0
    /\ NumNodes(_tree) > 1
    /\ _autorun
    /\ ~_updated
    /\ _root_status # "RUNNING"

\* C9: after a timer step whose tick left _root_status RUNNING, _updated is still
\* true, so that the next timer step ticks again.
C9_KeepTickingWhileRunning ==
    (ev.op = "runStep" /\ ev.o.ticks = 1 /\ ~ev.o.caught /\ _root_status = "RUNNING")
        => _updated

\* C10: the node_status tickRoot builds is in index order; it holds index 0, with
\* the new _root_status, iff _root_status changed; for a node whose status changed
\* it holds the new status, preceded by the previous one when the new one is IDLE;
\* for a node whose status did not change it holds nothing unless the node is no
\* condition node and RUNNING.
C10_ReportedChanges ==
    [][(ev'.o.ticks = 1 /\ (ev'.o.caught => ev'.o.reported # <<>>)) =>
          /\ \A k \in 1 .. Len(ev'.o.reported) - 1 :
                 ev'.o.reported[k][1] <= ev'.o.reported[k + 1][1]
          /\ ReportedFor(ev', 0) =
                 IF _root_status' # _root_status THEN <<_root_status'>> ELSE <<>>
          /\ \A i \in Nodes(_tree) :
                 IF status'[i] # status[i]
                 THEN ReportedFor(ev', i) =
                          IF status'[i] = "IDLE" THEN <<status[i], "IDLE">>
                                                 ELSE <<status'[i]>>
                 ELSE ReportedFor(ev', i) # <<>> =>
                          /\ TypeOf(_tree, i) # "CONDITION"
                          /\ status'[i] = "RUNNING"
                          /\ ReportedFor(ev', i)[1] = "RUNNING"]_vars

\* A tick reported a node that became IDLE: its previous status, then IDLE.
C10_Witness ==
    /\ ev.o.ticks = 1
    /\ \E k \in 1 .. Len(ev.o.reported) - 1 :
           /\ ev.o.reported[k][1] = ev.o.reported[k + 1][1]
           /\ ev.o.reported[k][1] # 0
           /\ ev.o.reported[k + 1][2] = "IDLE"
           /\ status[ev.o.reported[k][1]] = "IDLE"
           /\ ev.o.prev[ev.o.reported[k][1]] = ev.o.reported[k][2]
           /\ ev.o.prev[ev.o.reported[k][1]] # "IDLE"

\* C11: after Reset Tree every node of the execution tree is IDLE, _root_status
\* is IDLE and _updated is true.
C11_ResetToInitial ==
    ev.op = "on_buttonResetTree_clicked" =>
        /\ \A n \in Nodes(_tree) : status[n] = "IDLE"
        /\ _root_status = "IDLE"
        /\ _updated

\* The tree nodes displayed at the GUI indices of node_status; the GUI root is none.
SelectedTreeNodes(node_status) ==
    {Scene(expanded)[node_status[k][1] + 1] : k \in 1 .. Len(node_status)} \ {0}

\* C12: changeSelectedStyle(S) on a loaded tree, whatever is selected (the GUI
\* root included), raises nothing, gives status S to exactly the tree nodes
\* displayed at the selected GUI indices, leaves the status of every other tree
\* node as it was and sets _updated.
C12_SelectedStatusOnly ==
    [][(ev'.op = "changeSelectedStyle" /\ NumNodes(_tree) > 1) =>
          /\ ~crashed'
          /\ _updated'
          /\ \A n \in Nodes(_tree) :
                 IF n \in SelectedTreeNodes(ev'.o.emitted[1].node_status)
                 THEN \E k \in 1 .. Len(ev'.o.emitted[1].node_status) :
                          status'[n] = ev'.o.emitted[1].node_status[k][2]
                 ELSE status'[n] = status[n]]_vars

\* The members of the request named after port i.
MembersOf(i) == {k \in 1 .. Len(request.goal) : request.goal[k].name = i}

\* C13: the request getRequestFromPorts builds has exactly one member for each
\* port of the port mapping that is no OUTPUT port and none for an OUTPUT port.
C13_RequestMembers ==
    request.built =>
        \A i \in 1 .. Len(port_mapping) :
            Cardinality(MembersOf(i)) = IF port_mapping[i].direction = "OUTPUT" THEN 0 ELSE 1

\* C14: for every call the execute buttons made, the node the call was made for
\* was given SUCCESS when the result's "success" member is a boolean and true, and
\* FAILURE when it is false, no boolean or absent: that status was signalled for
\* its GUI index and is the status of its tree node afterwards.
C14_StatusOfResult ==
    ev.op \in {"on_buttonExecSelection_clicked", "on_buttonExecRunning_clicked"} =>
        \A k \in 1 .. Len(ev.o.calls) :
            /\ ev.o.emitted[k].node_status =
                   << <<ev.o.calls[k][1],
                        IF ev.o.calls[k][3] = "true" THEN "SUCCESS" ELSE "FAILURE">> >>
            /\ status[Scene(expanded)[ev.o.calls[k][1] + 1]] =
                   IF ev.o.calls[k][3] = "true" THEN "SUCCESS" ELSE "FAILURE"

\* Execute Selection made the call for the selected leaf and the result's
\* "success" member is no boolean: the node is FAILURE.
C14_Witness ==
    /\ ev.op = "on_buttonExecSelection_clicked"
    /\ Len(ev.o.calls) = 1
    /\ ev.o.calls[1][3] = "nonbool"
    /\ status[Scene(expanded)[ev.o.calls[1][1] + 1]] = "FAILURE"
    /\ ~crashed

\* The tickRoot call of the handler recorded in e raised a std::exception: the
\* tick of the tree did, or translateNodeIndex.
Raised(e) ==
    \/ Len(e.o.trace) > 0 /\ e.o.trace[Len(e.o.trace)][2] = "ERROR"
    \/ \E k \in 1 .. Len(e.o.trans) : e.o.trans[k].tree_index /\ e.o.trans[k].err

\* C15: a timer step whose tickRoot raised a std::exception lets no exception
\* out and leaves _autorun false and the timer stopped; and while _autorun is
\* false it stays false, the timer stays stopped and no timer step ticks, until
\* on_buttonEnableAutoExecution_clicked.
C15_DisableOnException ==
    [][/\ (ev'.op = "runStep" /\ Raised(ev')) =>
              ~crashed' /\ ~_autorun' /\ ~timer'
       /\ (~_autorun /\ ev'.op # "on_buttonEnableAutoExecution_clicked") =>
              /\ ~_autorun' /\ ~timer'
              /\ ev'.op = "runStep" => ev'.o.ticks = 0]_vars

\* A timer step ticked the tree, the Parallel node raised BT::LogicError after
\* the action node before it had returned SUCCESS, and runStep caught it.
C15_Witness ==
    /\ ev.op = "runStep"
    /\ ev.o.ticks = 1
    /\ Raised(ev)
    /\ ev.o.caught
    /\ ~crashed
    /\ ~_autorun
    /\ ~timer

\* The handlers that change the statuses of the tree by the user's hand.
UserChanges ==
    {"changeSelectedStyle", "changeRunningStyle", "on_buttonExecSelection_clicked",
     "on_buttonExecRunning_clicked", "on_buttonResetTree_clicked"}

\* C16: while the timer keeps firing, a user change made with a tree of more
\* than one node loaded and auto execution enabled is eventually followed by a
\* timer step that ticks the tree, unless auto execution is disabled first (or an
\* exception leaving a later handler ends the program).
C16_ChangeLeadsToTick ==
    (ev.op \in UserChanges /\ NumNodes(_tree) > 1 /\ _autorun /\ ~crashed)
        ~> ((ev.op = "runStep" /\ ev.o.ticks = 1) \/ ~_autorun \/ crashed)

\* A timer step ticked the tree and found an action node SUCCESS or FAILURE,
\* which only a user change gives it.
C16_Witness ==
    /\ ev.op = "runStep"
    /\ ev.o.ticks = 1
    /\ _autorun
    /\ \E n \in Nodes(_tree) :
           TypeOf(_tree, n) = "ACTION" /\ ev.o.prev[n] \in {"SUCCESS", "FAILURE"}

====
